---- MODULE Spec2Model ----
(***************************************************************************)
(* Model of the skill/task matching engine of optiplan-ai: the two matcher *)
(* implementations (PineconeSDK.py and UpstashVectorStore.py), the vector  *)
(* index they write to and search, and the ranking they compute from the   *)
(* search hits.                                                            *)
(*                                                                         *)
(* Numbers: raw scores are in hundredths, every computed score, weight and *)
(* coverage is an exact rational <<numerator, denominator>> in lowest      *)
(* terms with a positive denominator (Python floats are idealised as       *)
(* reals).  Python dicts are functions with string keys, lists are         *)
(* sequences, sets are sets.                                               *)
(***************************************************************************)
EXTENDS Integers, Sequences, FiniteSets, TLC

VARIABLES variant, store, op, reply, results, returned

vars == <<variant, store, op, reply, results, returned>>

----------------------------------------------------------------------------
(* Bounds of the model *)

MaxUsers == 2        \* users (tasks) per indexing call
MaxTopK == 2         \* top_k of a matching call
MaxHits == 3         \* hits in one reply of the search collaborator

----------------------------------------------------------------------------
(* Generic helpers *)

Variants == {"pinecone", "upstash"}

Range(s) == {s[i] : i \in DOMAIN s}

Min(a, b) == IF a < b THEN a ELSE b

Abs(a) == IF a < 0 THEN 0 - a ELSE a

\* dict.get(key, default)
Get(d, key, default) == IF key \in DOMAIN d THEN d[key] ELSE default

\* dict.update(other)
Update(d, other) ==
  [key \in (DOMAIN d) \cup (DOMAIN other) |->
     IF key \in DOMAIN other THEN other[key] ELSE d[key]]

\* s[:n]
Take(s, n) == SubSeq(s, 1, Min(n, Len(s)))

\* the sequences without repetition, of length at most n, over the set S
RECURSIVE Arrangements(_, _)
Arrangements(S, n) ==
  IF n = 0 THEN {<<>>}
  ELSE {<<>>} \cup UNION {{<<x>> \o t : t \in Arrangements(S \ {x}, n - 1)} : x \in S}

\* the sequences of length 1..n over the set S
SeqsUpTo(S, n) == UNION {[1..m -> S] : m \in 1..n}

----------------------------------------------------------------------------
(* Exact rational arithmetic *)

RECURSIVE Gcd(_, _)
Gcd(a, b) == IF b = 0 THEN a ELSE Gcd(b, a % b)

Rat(n, d) ==
  LET g == Gcd(Abs(n), Abs(d))
      s == IF d < 0 THEN 0 - 1 ELSE 1
  IN  <<(s * n) \div g, (s * d) \div g>>

Zero == <<0, 1>>
One == <<1, 1>>

RatAdd(a, b) == Rat(a[1] * b[2] + b[1] * a[2], a[2] * b[2])
RatMul(a, b) == Rat(a[1] * b[1], a[2] * b[2])
RatLt(a, b) == a[1] * b[2] < b[1] * a[2]
RatLe(a, b) == a[1] * b[2] <= b[1] * a[2]
RatMin_Larger(a, b) == IF RatLt(a, b) THEN b ELSE a

RatMin(a, b) == IF RatLt(a, b) THEN a ELSE b

RECURSIVE RatSum(_)
RatSum(s) == IF s = <<>> THEN Zero ELSE RatAdd(Head(s), RatSum(Tail(s)))

\* Python's a / b: raises ZeroDivisionError when b is zero
ZeroDivisionError == <<1, 0>>
Divide(a, b) == IF b[1] = 0 THEN ZeroDivisionError ELSE Rat(a[1] * b[2], a[2] * b[1])

----------------------------------------------------------------------------
(* Input data: the dicts the callers pass in *)

React == [name |-> "React", category |-> "frontend",
          experience_years |-> 5, proficiency_score |-> 80]
NodeJs == [name |-> "Node.js", category |-> "backend",
           experience_years |-> 3, proficiency_score |-> 60]
PostgreSQL == [name |-> "PostgreSQL", category |-> "database",
               experience_years |-> 5, proficiency_score |-> 80]
GraphQL == [name |-> "GraphQL", category |-> "backend",
            experience_years |-> 1, proficiency_score |-> 40]

UserCatalogue ==
  { [id |-> "u1", name |-> "Ann", primary_domain |-> "web", skills |-> <<React, NodeJs>>],
    [id |-> "u1", name |-> "Ann", primary_domain |-> "web", skills |-> <<React>>],
    [id |-> "u2", name |-> "Bob", primary_domain |-> "data", skills |-> <<PostgreSQL>>] }

TaskCatalogue ==
  { [task_id |-> "t1", name |-> "Build UI", required_skills |-> <<React, NodeJs>>,
     complexity |-> 5, estimated_hours |-> 8],
    [task_id |-> "t2", name |-> "Build API", required_skills |-> <<React, GraphQL>>,
     complexity |-> 6, estimated_hours |-> 12],
    [task_id |-> "t3", name |-> "Kickoff", required_skills |-> <<>>,
     complexity |-> 1, estimated_hours |-> 2],
    [task_id |-> "t4", name |-> "Schema", required_skills |-> <<PostgreSQL>>,
     complexity |-> 4, estimated_hours |-> 6] }

\* a skill dict without the key name
Unnamed == [category |-> "backend", experience_years |-> 2, proficiency_score |-> 30]

\* users and tasks that lack a name somewhere: a user whose second skill has
\* none, a task that has none
InvalidUserCatalogue ==
  { [id |-> "u2", name |-> "Bob", primary_domain |-> "data",
     skills |-> <<PostgreSQL, Unnamed>>] }

InvalidTaskCatalogue ==
  { [task_id |-> "t5", required_skills |-> <<React>>,
     complexity |-> 2, estimated_hours |-> 3] }

\* the tasks that indexing calls are made with
IndexedTaskCatalogue ==
  {t \in TaskCatalogue : t.task_id = "t1"} \cup InvalidTaskCatalogue

\* the users that indexing calls are made with
IndexedUserCatalogue == UserCatalogue \cup InvalidUserCatalogue

Scopes ==
  { [project_id |-> "p1", manager_id |-> "m1"],
    [project_id |-> "p2", manager_id |-> "m1"],
    [project_id |-> "p1", manager_id |-> "m2"] }

\* the allow-lists of user ids passed to find_matching_users
AllowLists == {<<>>, <<"u1">>}

\* raw scores the search collaborator reports, in hundredths
RawScores == {5, 10, 150}

----------------------------------------------------------------------------
(* Identity *)

Md5(base) == <<"md5", base>>

\* the string that is hashed
BaseString(entity_id, skill_name, is_user) ==
  IF is_user
  THEN "user_" \o entity_id \o "_skill_" \o skill_name
  ELSE "task_" \o entity_id

StableId_NoSkill(entity_id, skill_name, is_user) ==
  IF is_user THEN Md5("user_" \o entity_id) ELSE Md5("task_" \o entity_id)

StableId(entity_id, skill_name, is_user) ==
  Md5(BaseString(entity_id, skill_name, is_user))

----------------------------------------------------------------------------
(* DocumentComposer *)

\* ', '.join(names)
RECURSIVE Join(_, _)
Join(names, sep) ==
  IF names = <<>> THEN ""
  ELSE IF Len(names) = 1 THEN names[1]
       ELSE names[1] \o sep \o Join(Tail(names), sep)

\* f"{skill.get(key, 'N/A')}"
Fmt(d, key) == IF key \in DOMAIN d THEN ToString(d[key]) ELSE "N/A"

SkillContent(skill) ==
  "Skill: " \o skill["name"] \o "\nCategory: " \o skill["category"]
  \o "\nExperience: " \o Fmt(skill, "experience_years") \o "y"
  \o "\nProficiency: " \o Fmt(skill, "proficiency_score")

CreateSkillDocument(v, skill, user_id, project_details) ==
  LET content == SkillContent(skill)
      metadata == [skill_name |-> skill["name"],
                   skill_category |-> skill["category"],
                   experience |-> Get(skill, "experience_years", 0),
                   proficiency |-> Get(skill, "proficiency_score", 0),
                   user_id |-> user_id,
                   project_id |-> project_details["project_id"],
                   manager_id |-> project_details["manager_id"]]
  IN  [content |-> content,
       metadata |-> IF v = "pinecone"
                    THEN Update(metadata, [page_content |-> content])
                    ELSE metadata]

SkillNames(skills) == [i \in DOMAIN skills |-> skills[i]["name"]]

CreateTaskDocument(v, task, project_details) ==
  LET skill_names == SkillNames(IF v = "pinecone" THEN task["required_skills"]
                                ELSE Get(task, "required_skills", <<>>))
      content == "Task: " \o task["name"] \o "\nRequired Skills: " \o Join(skill_names, ", ")
      metadata == [task_id |-> task["task_id"],
                   task_name |-> task["name"],
                   required_skills |-> skill_names,
                   min_complexity |-> IF v = "pinecone" THEN task["complexity"]
                                      ELSE Get(task, "complexity", 0),
                   time_estimate |-> IF v = "pinecone" THEN task["estimated_hours"]
                                     ELSE Get(task, "estimated_hours", 0),
                   project_id |-> project_details["project_id"],
                   manager_id |-> project_details["manager_id"]]
  IN  [content |-> content,
       metadata |-> IF v = "pinecone"
                    THEN Update(metadata, [page_content |-> content])
                    ELSE metadata]

----------------------------------------------------------------------------
(* The external vector index.  A partition is an index together with a     *)
(* namespace; each partition maps entry ids to <<content, metadata>>.      *)

DefaultNamespace == ""

Partitions ==
  { <<"skills-embeddings", "user_skills">>, <<"skills-embeddings", DefaultNamespace>>,
    <<"tasks-embeddings", "tasks">>, <<"tasks-embeddings", DefaultNamespace>>,
    <<"upstash", DefaultNamespace>> }

\* the partition index_users writes to
SkillsWritePartition(v) ==
  IF v = "pinecone" THEN <<"skills-embeddings", "user_skills">>
  ELSE <<"upstash", DefaultNamespace>>

\* the partition index_tasks writes to
TasksWritePartition(v) ==
  IF v = "pinecone" THEN <<"tasks-embeddings", "tasks">>
  ELSE <<"upstash", DefaultNamespace>>

\* the partition find_matching_users searches
SkillsReadPartition(v) ==
  IF v = "pinecone" THEN <<"skills-embeddings", DefaultNamespace>>
  ELSE <<"upstash", DefaultNamespace>>

\* the partition find_matching_tasks searches
TasksReadPartition(v) ==
  IF v = "pinecone" THEN <<"tasks-embeddings", DefaultNamespace>>
  ELSE <<"upstash", DefaultNamespace>>

EmptyIndex == [id \in {} |-> <<>>]

\* upsert of a batch: an entry with the same id is overwritten, and of two
\* vectors of the batch with the same id the later one stays
Upsert(index, batch) ==
  LET ids == {batch[i].id : i \in DOMAIN batch}
      Last(id) == CHOOSE i \in DOMAIN batch :
                    /\ batch[i].id = id
                    /\ \A j \in (i + 1)..Len(batch) : batch[j].id # id
  IN  [id \in (DOMAIN index) \cup ids |->
         IF id \in ids
         THEN [content |-> batch[Last(id)].content, metadata |-> batch[Last(id)].metadata]
         ELSE index[id]]

BatchSize == 100

NumBatches(all_vectors) == (Len(all_vectors) + BatchSize - 1) \div BatchSize

\* all_vectors[i:i + batch_size] for the b-th batch
Batch(all_vectors, b) ==
  SubSeq(all_vectors, (b - 1) * BatchSize + 1, Min(b * BatchSize, Len(all_vectors)))

\* the batches are upserted in order; the ones in failed are rejected by the index
RECURSIVE UpsertBatches(_, _, _, _)
UpsertBatches(index, all_vectors, b, failed) ==
  IF b > NumBatches(all_vectors) THEN index
  ELSE UpsertBatches(IF b \in failed THEN index ELSE Upsert(index, Batch(all_vectors, b)),
                     all_vectors, b + 1, failed)

----------------------------------------------------------------------------
(* Indexing *)

\* the vectors of one user: one per skill, in order
UserVectors(v, user, project_details) ==
  LET skills == IF v = "pinecone" THEN user["skills"] ELSE Get(user, "skills", <<>>)
  IN  [i \in DOMAIN skills |->
         LET doc == CreateSkillDocument(v, skills[i], user["id"], project_details)
             extra == IF v = "pinecone"
                      THEN [user_id |-> user["id"], user_name |-> user["name"],
                            primary_domain |-> user["primary_domain"],
                            project_id |-> project_details["project_id"],
                            manager_id |-> project_details["manager_id"]]
                      ELSE [user_id |-> user["id"], user_name |-> Get(user, "name", ""),
                            primary_domain |-> Get(user, "primary_domain", "")]
         IN  [id |-> StableId(user["id"], skills[i]["name"], TRUE),
              content |-> doc.content,
              metadata |-> Update(doc.metadata, extra)]]

RECURSIVE AllUserVectors(_, _, _)
AllUserVectors(v, users, project_details) ==
  IF users = <<>> THEN <<>>
  ELSE UserVectors(v, Head(users), project_details)
       \o AllUserVectors(v, Tail(users), project_details)

AllTaskVectors(v, tasks, project_details) ==
  [i \in DOMAIN tasks |->
     LET doc == CreateTaskDocument(v, tasks[i], project_details)
     IN  [id |-> StableId(tasks[i]["task_id"], "", FALSE),
          content |-> doc.content,
          metadata |-> doc.metadata]]

----------------------------------------------------------------------------
(* SkillWeightCalculator *)

\* str.lower() on the category names that occur
Lower(s) ==
  CASE s = "Frontend" -> "frontend"
    [] s = "Backend" -> "backend"
    [] s = "Database" -> "database"
    [] s = "Cloud" -> "cloud"
    [] s = "Design" -> "design"
    [] s = "Management" -> "management"
    [] OTHER -> s

\* category_multipliers.get(category, 1.0)
CategoryMultiplier(category) ==
  CASE category = "frontend" -> Rat(110, 100)
    [] category = "backend" -> Rat(110, 100)
    [] category = "database" -> Rat(115, 100)
    [] category = "cloud" -> Rat(115, 100)
    [] category = "design" -> Rat(110, 100)
    [] category = "management" -> Rat(100, 100)
    [] OTHER -> One

CalculateSkillWeight_NoCap(v, skill) ==
  LET experience_weight == Rat(Get(skill, "experience_years", 0), 10)
      proficiency_weight == Rat(Get(skill, "proficiency_score", 0), 100)
      category == IF v = "pinecone" THEN skill["skill_category"]
                  ELSE Get(skill, "category", "")
      category_multiplier == CategoryMultiplier(Lower(category))
  IN  RatMul(RatAdd(RatMul(Rat(4, 10), experience_weight),
                    RatMul(Rat(6, 10), proficiency_weight)),
             category_multiplier)

\* _calculate_skill_weight(skill): PineconeSDK reads skill["skill_category"],
\* UpstashVectorStore reads skill.get("category", "")
CalculateSkillWeight(v, skill) ==
  LET experience_weight == RatMin(Rat(Get(skill, "experience_years", 0), 10), One)
      proficiency_weight == Rat(Get(skill, "proficiency_score", 0), 100)
      category == IF v = "pinecone" THEN skill["skill_category"]
                  ELSE Get(skill, "category", "")
      category_multiplier == CategoryMultiplier(Lower(category))
  IN  RatMul(RatAdd(RatMul(Rat(4, 10), experience_weight),
                    RatMul(Rat(6, 10), proficiency_weight)),
             category_multiplier)

----------------------------------------------------------------------------
(* What a search hit carries.  A hit is [id, score, metadata, shape,        *)
(* meta_shape]: score is the raw score in hundredths; shape says whether   *)
(* the client library hands the result over as an object with attributes   *)
(* or as a dict, meta_shape the same for its metadata.                     *)

None == "<None>"

\* Python truthiness of a string or None
Truthy(x) == x # None /\ x # ""

\* metadata.get(key, default) for a dict, getattr(metadata, key, default) for an object
MetaGet(hit, key, default) == Get(hit.metadata, key, default)

\* lines 277 and 379 of UpstashVectorStore.py:
\*   getattr(result, "score", None) or getattr(result, "similarity", None)
\*     or result.get("score", 0) if isinstance(result, dict) else 0
\* the conditional expression binds weaker than the chain of "or": the chain
\* is evaluated for a dict only, where both getattr give None and the chain
\* is result.get("score", 0); every other result gets 0
UpstashScore(result) == IF result.shape = "dict" THEN result.score ELSE 0

\* the score a hit enters the aggregation with
UpstashNormalizedScore(result) == Rat(UpstashScore(result), 100)

\* PineconeSDK appends 1 - score
PineconeNormalizedScore(result) == Rat(100 - result.score, 100)

NormalizedScore(v, result) ==
  IF v = "pinecone" THEN PineconeNormalizedScore(result) ELSE UpstashNormalizedScore(result)

\* the dict handed to _calculate_skill_weight for a hit
WeightArgument(v, hit) ==
  IF v = "pinecone" \/ hit.meta_shape = "dict"
  THEN hit.metadata
  ELSE [experience_years |-> MetaGet(hit, "experience", 0),
        proficiency_score |-> MetaGet(hit, "proficiency", 0),
        category |-> MetaGet(hit, "skill_category", "")]

----------------------------------------------------------------------------
(* Ranker *)

\* sorted(matches, key=lambda x: x["match_score"], reverse=True): a stable
\* sort, elements with equal keys keep their order
RECURSIVE InsertDescending(_, _)
InsertDescending(sorted, x) ==
  IF sorted = <<>> THEN <<x>>
  ELSE IF RatLt(Head(sorted).match_score, x.match_score)
       THEN <<x>> \o sorted
       ELSE <<Head(sorted)>> \o InsertDescending(Tail(sorted), x)

RECURSIVE SortedDescending(_)
SortedDescending(matches) ==
  IF matches = <<>> THEN <<>>
  ELSE InsertDescending(SortedDescending(SubSeq(matches, 1, Len(matches) - 1)),
                        matches[Len(matches)])

Rank_SliceFirst(matches, top_k) == SortedDescending(Take(matches, top_k))

Rank(matches, top_k) == Take(SortedDescending(matches), top_k)

----------------------------------------------------------------------------
(* UserMatchAggregator: find_matching_users *)

RequiredSkills(v, task) ==
  Range(SkillNames(IF v = "pinecone" THEN task["required_skills"]
                   ELSE Get(task, "required_skills", <<>>)))

\* the number of candidates find_matching_users asks the index for
UsersQueryTopK(v, required_skills, top_k) ==
  IF v = "pinecone" THEN top_k * Cardinality(required_skills)
  ELSE IF required_skills # {} THEN top_k * Cardinality(required_skills) ELSE top_k * 2

UsersRequestedK(v, required_skills, top_k) ==
  IF v = "pinecone" THEN UsersQueryTopK(v, required_skills, top_k)
  ELSE Min(UsersQueryTopK(v, required_skills, top_k), 100)

\* the filter PineconeSDK sends with the query
UsersSearchFilter(users, project_details) ==
  LET base == [project_id |-> project_details["project_id"],
               manager_id |-> project_details["manager_id"]]
  IN  IF users # <<>> THEN Update(base, [user_id |-> [in |-> users]]) ELSE base

\* the client-side filter of UpstashVectorStore.find_matching_users
UpstashUserFilter_ProjectOnly(result, users, project_details) ==
  /\ MetaGet(result, "project_id", None) = project_details["project_id"]
  /\ (users = <<>> \/ MetaGet(result, "user_id", None) \in Range(users))

UpstashUserFilter(result, users, project_details) ==
  /\ MetaGet(result, "project_id", None) = project_details["project_id"]
  /\ MetaGet(result, "manager_id", None) = project_details["manager_id"]
  /\ (users = <<>> \/ MetaGet(result, "user_id", None) \in Range(users))

\* the hits that are aggregated: `results` after lines 218-240 of
\* UpstashVectorStore.py; PineconeSDK takes the reply as it is
UsersResults(v, raw, users, project_details, query_top_k) ==
  IF v = "pinecone" THEN raw
  ELSE Take(SelectSeq(raw, LAMBDA r : UpstashUserFilter(r, users, project_details)),
            query_top_k)

\* the hits that reach the aggregation loop body
UsersAggregated(v, rs) ==
  IF v = "pinecone" THEN rs
  ELSE SelectSeq(rs, LAMBDA r : Truthy(MetaGet(r, "user_id", None)))

\* the keys of the dict `matches`, in insertion order
RECURSIVE FirstSeen(_, _)
FirstSeen(ids, seen) ==
  IF ids = <<>> THEN <<>>
  ELSE IF Head(ids) \in seen THEN FirstSeen(Tail(ids), seen)
       ELSE <<Head(ids)>> \o FirstSeen(Tail(ids), seen \cup {Head(ids)})

HitUser(v, hit) ==
  IF v = "pinecone" THEN hit.metadata["user_id"] ELSE MetaGet(hit, "user_id", None)

\* matches[user_id] after the loop over the results
UserData(v, hits, user_id) ==
  LET mine == SelectSeq(hits, LAMBDA h : HitUser(v, h) = user_id)
  IN  [user_id |-> user_id,
       name |-> IF v = "pinecone" THEN mine[1].metadata["user_name"]
                ELSE MetaGet(mine[1], "user_name", ""),
       match_scores |-> [i \in DOMAIN mine |-> NormalizedScore(v, mine[i])],
       matched_skills |-> {IF v = "pinecone" THEN mine[i].metadata["skill_name"]
                           ELSE MetaGet(mine[i], "skill_name", "") : i \in DOMAIN mine},
       skill_weights |-> [i \in DOMAIN mine |->
                            CalculateSkillWeight(v, WeightArgument(v, mine[i]))]]

Mean(s) == Divide(RatSum(s), Rat(Len(s), 1))

\* PineconeSDK line 317 divides unguarded, UpstashVectorStore lines 287-291 guard
UsersSkillCoverage(v, matched_skills, required_skills) ==
  IF v = "pinecone"
  THEN Divide(Rat(Cardinality(matched_skills), 1), Rat(Cardinality(required_skills), 1))
  ELSE IF required_skills # {}
       THEN Divide(Rat(Cardinality(matched_skills), 1), Rat(Cardinality(required_skills), 1))
       ELSE Zero

\* one entry of final_matches (lines 316-330 of PineconeSDK.py)
UserFinalMatch(v, user_data, required_skills) ==
  LET skill_coverage == UsersSkillCoverage(v, user_data.matched_skills, required_skills)
      avg_score == IF v = "pinecone" \/ user_data.match_scores # <<>>
                   THEN Mean(user_data.match_scores) ELSE Zero
      avg_weight == IF v = "pinecone" \/ user_data.skill_weights # <<>>
                    THEN Mean(user_data.skill_weights) ELSE Zero
  IN  [user_id |-> user_data.user_id,
       name |-> user_data.name,
       match_score |-> RatAdd(RatAdd(RatMul(avg_score, Rat(4, 10)),
                                     RatMul(skill_coverage, Rat(4, 10))),
                              RatMul(avg_weight, Rat(2, 10))),
       skill_coverage |-> skill_coverage]

UsersMatchedIds_PerHit(v, hits) == [i \in DOMAIN hits |-> HitUser(v, hits[i])]

\* the keys of the dict matches, in the order of their first hit
UsersMatchedIds(v, hits) == FirstSeen([i \in DOMAIN hits |-> HitUser(v, hits[i])], {})

\* the loop over matches.values() raises ZeroDivisionError
UsersRaise(v, hits, required_skills) ==
  \E i \in DOMAIN hits :
    UsersSkillCoverage(v, UserData(v, hits, HitUser(v, hits[i])).matched_skills,
                       required_skills) = ZeroDivisionError

\* final_matches
UsersFinalMatches(v, hits, required_skills) ==
  LET user_ids == UsersMatchedIds(v, hits)
  IN  [i \in DOMAIN user_ids |->
         UserFinalMatch(v, UserData(v, hits, user_ids[i]), required_skills)]

----------------------------------------------------------------------------
(* TaskMatchScorer: find_matching_tasks *)

UserSkills(v, user) ==
  Range(SkillNames(IF v = "pinecone" THEN user["skills"] ELSE Get(user, "skills", <<>>)))

TasksSearchFilter(project_details) ==
  [project_id |-> project_details["project_id"],
   manager_id |-> project_details["manager_id"]]

UpstashTaskFilter(result, project_details) ==
  /\ MetaGet(result, "project_id", None) = project_details["project_id"]
  /\ MetaGet(result, "manager_id", None) = project_details["manager_id"]

TasksResults(v, raw, project_details, top_k) ==
  IF v = "pinecone" THEN raw
  ELSE Take(SelectSeq(raw, LAMBDA r : UpstashTaskFilter(r, project_details)), top_k)

TasksSkillCoverage(required_skills, user_skills) ==
  IF required_skills # {}
  THEN Divide(Rat(Cardinality(required_skills \cap user_skills), 1),
              Rat(Cardinality(required_skills), 1))
  ELSE Zero

TaskRequiredSkills(v, hit) ==
  IF v = "pinecone" THEN Range(hit.metadata["required_skills"])
  ELSE Range(MetaGet(hit, "required_skills", <<>>))

\* match_data of one result
TaskMatch(v, hit, user_skills) ==
  LET skill_coverage == TasksSkillCoverage(TaskRequiredSkills(v, hit), user_skills)
  IN  [task_id |-> IF v = "pinecone" THEN hit.metadata["task_id"]
                   ELSE MetaGet(hit, "task_id", ""),
       name |-> IF v = "pinecone" THEN hit.metadata["task_name"]
                ELSE MetaGet(hit, "task_name", ""),
       match_score |-> RatMul(NormalizedScore(v, hit), skill_coverage),
       min_complexity |-> IF v = "pinecone" THEN hit.metadata["min_complexity"]
                          ELSE MetaGet(hit, "min_complexity", 0),
       time_estimate |-> IF v = "pinecone" THEN hit.metadata["time_estimate"]
                         ELSE MetaGet(hit, "time_estimate", 0),
       skill_coverage |-> skill_coverage]

TasksRaise(v, hits, user_skills) ==
  \E i \in DOMAIN hits :
    TasksSkillCoverage(TaskRequiredSkills(v, hits[i]), user_skills) = ZeroDivisionError

TasksMatches(v, hits, user_skills) ==
  [i \in DOMAIN hits |-> TaskMatch(v, hits[i], user_skills)]

----------------------------------------------------------------------------
(* The search collaborator *)

\* the server-side metadata filter of a Pinecone query
FilterHolds(filter, metadata) ==
  \A key \in DOMAIN filter :
    /\ key \in DOMAIN metadata
    /\ IF key = "user_id" THEN metadata[key] \in Range(filter[key]["in"])
       ELSE metadata[key] = filter[key]

NoFilter == [key \in {} |-> ""]

\* the entries of a partition a query may return
Candidates(index, filter) ==
  {id \in DOMAIN index : FilterHolds(filter, index[id].metadata)}

\* a set of ids listed in the order the index ranks them
RECURSIVE Listing(_)
Listing(S) ==
  IF S = {} THEN <<>>
  ELSE LET x == CHOOSE y \in S : TRUE IN <<x>> \o Listing(S \ {x})

\* the score the index reports for the hit at a rank
RankScore(i) == IF i = 1 THEN 10 ELSE 5

ResultShapes == {"object", "dict"}

Hit(id, metadata, score, shape, meta_shape) ==
  [id |-> id, score |-> score, metadata |-> metadata,
   shape |-> shape, meta_shape |-> meta_shape]

\* what a query for k candidates may answer: a query for fewer than one
\* candidate is rejected or answered with nothing, any other is answered
\* with k of the candidates (all of them when there are fewer), best first
\* the query fails when the index cannot be reached
SearchFailure == [error |-> "SearchError", hits |-> <<>>]

SearchOutcomes(index, filter, k) ==
  IF k < 1
  THEN {[error |-> "InvalidTopK", hits |-> <<>>], [error |-> "none", hits |-> <<>>]}
  ELSE LET cands == Candidates(index, filter)
           n == Min(k, Cardinality(cands))
       IN  {SearchFailure} \cup
           {[error |-> "none",
             hits |-> LET ids == Listing(S)
                      IN  [i \in DOMAIN ids |->
                             Hit(ids[i], index[ids[i]].metadata, RankScore(i),
                                 "object", "dict")]] :
               S \in {T \in SUBSET cands : Cardinality(T) = n}}

----------------------------------------------------------------------------
(* Composition failures.  skill['name'] and task['name'] raise KeyError in *)
(* the loop that composes the documents, which runs to its end before the  *)
(* first upsert.                                                           *)

UsersComposeRaises(users) ==
  \E u \in DOMAIN users : \E k \in DOMAIN users[u].skills :
    "name" \notin DOMAIN users[u].skills[k]

TasksComposeRaises(tasks) ==
  \E t \in DOMAIN tasks :
    \/ "name" \notin DOMAIN tasks[t]
    \/ \E k \in DOMAIN tasks[t].required_skills :
         "name" \notin DOMAIN tasks[t].required_skills[k]

\* the users up to the first skill without a name
ComposedBeforeRaise(users) ==
  LET bad == CHOOSE u \in DOMAIN users :
               /\ UsersComposeRaises(<<users[u]>>)
               /\ \A x \in 1..(u - 1) : ~UsersComposeRaises(<<users[x]>>)
      k == CHOOSE j \in DOMAIN users[bad].skills :
             /\ "name" \notin DOMAIN users[bad].skills[j]
             /\ \A x \in 1..(j - 1) : "name" \in DOMAIN users[bad].skills[x]
  IN  [u \in 1..bad |->
         IF u < bad THEN users[u]
         ELSE [users[u] EXCEPT !.skills = SubSeq(@, 1, k - 1)]]

UserVectorsToUpsert_AsComposed(v, users, project_details) ==
  IF UsersComposeRaises(users)
  THEN AllUserVectors(v, ComposedBeforeRaise(users), project_details)
  ELSE AllUserVectors(v, users, project_details)

\* what index_users hands to the upsert: every document of the call, or
\* nothing when composing one of them raised
UserVectorsToUpsert(v, users, project_details) ==
  IF UsersComposeRaises(users) THEN <<>>
  ELSE AllUserVectors(v, users, project_details)

TaskVectorsToUpsert(v, tasks, project_details) ==
  IF TasksComposeRaises(tasks) THEN <<>>
  ELSE AllTaskVectors(v, tasks, project_details)

----------------------------------------------------------------------------
(* Operations.  op describes the call that has just been made; Idle is the *)
(* return to the caller, after which the next call is made.                *)

NoScope == [project_id |-> "", manager_id |-> ""]

NoOp == [kind |-> "idle", scope |-> NoScope, arg |-> <<>>, users |-> <<>>,
         top_k |-> 0, k |-> 0, search |-> "none", outcome |-> "ok", error |-> "none",
         failed |-> {}, again |-> FALSE]

\* the outcome of an indexing call: UpstashVectorStore catches and prints the
\* failure of a batch, PineconeSDK lets the exception of add_texts propagate
IndexOutcome(v, failed) ==
  IF v = "pinecone" /\ failed # {} THEN "raised" ELSE "ok"

\* the outcome and the exception of an indexing call
IndexResult(v, compose_raises, failed) ==
  IF compose_raises THEN [outcome |-> "raised", error |-> "KeyError"]
  ELSE IF IndexOutcome(v, failed) = "ok" THEN [outcome |-> "ok", error |-> "none"]
  ELSE [outcome |-> "raised", error |-> "UpsertError"]

\* a call is made when the previous one has returned, or it repeats the
\* indexing call that has just succeeded
MayCall(kind, arg, project_details) ==
  \/ op.kind = "idle"
  \/ /\ op.kind = kind
     /\ kind \in {"index_users", "index_tasks"}
     /\ op.arg = arg
     /\ op.scope = project_details
     /\ op.failed = {}
     /\ op.outcome = "ok"
     /\ ~op.again

\* whether the upsert stops at the first batch the index rejects:
\* UpstashVectorStore catches the failure of a batch and goes on; PineconeSDK
\* hands all documents to add_texts of the client library, which raises, and
\* whether it has sent the later batches by then is the library's choice
AbortChoices(v) == IF v = "pinecone" THEN BOOLEAN ELSE {FALSE}

\* the batches that do not reach the index: the rejected ones, and the ones
\* after the first rejected one when the upsert stops there
NotCommitted(all_vectors, failed, aborts) ==
  IF aborts
  THEN {b \in 1..NumBatches(all_vectors) : \E f \in failed : f <= b}
  ELSE failed

\* index_users(users, project_details)
IndexUsersOn(users, project_details) ==
  LET all_vectors == UserVectorsToUpsert(variant, users, project_details)
      p == SkillsWritePartition(variant)
  IN  /\ MayCall("index_users", users, project_details)
      /\ \E failed \in SUBSET (1..NumBatches(all_vectors)),
            aborts \in AbortChoices(variant) :
        LET result == IndexResult(variant, UsersComposeRaises(users), failed)
        IN  /\ store' = [store EXCEPT ![p] =
                           UpsertBatches(@, all_vectors, 1,
                                         NotCommitted(all_vectors, failed, aborts))]
            /\ op' = [NoOp EXCEPT !.kind = "index_users", !.scope = project_details,
                                  !.arg = users, !.failed = failed,
                                  !.outcome = result.outcome,
                                  !.error = result.error,
                                  !.again = (op.kind = "index_users" /\ failed = {})]
            /\ reply' = <<>>
            /\ results' = <<>>
            /\ returned' = <<>>
            /\ UNCHANGED variant

\* index_tasks(tasks, project_details)
IndexTasksOn(tasks, project_details) ==
  LET all_vectors == TaskVectorsToUpsert(variant, tasks, project_details)
      p == TasksWritePartition(variant)
  IN  /\ MayCall("index_tasks", tasks, project_details)
      /\ \E failed \in SUBSET (1..NumBatches(all_vectors)),
            aborts \in AbortChoices(variant) :
        LET result == IndexResult(variant, TasksComposeRaises(tasks), failed)
        IN  /\ store' = [store EXCEPT ![p] =
                           UpsertBatches(@, all_vectors, 1,
                                         NotCommitted(all_vectors, failed, aborts))]
            /\ op' = [NoOp EXCEPT !.kind = "index_tasks", !.scope = project_details,
                                  !.arg = tasks, !.failed = failed,
                                  !.outcome = result.outcome,
                                  !.error = result.error,
                                  !.again = (op.kind = "index_tasks" /\ failed = {})]
            /\ reply' = <<>>
            /\ results' = <<>>
            /\ returned' = <<>>
            /\ UNCHANGED variant

IndexUsers ==
  /\ op.kind \in {"idle", "index_users"}
  /\ \E users \in SeqsUpTo(IndexedUserCatalogue, MaxUsers), project_details \in Scopes :
       IndexUsersOn(users, project_details)

IndexTasks ==
  /\ op.kind \in {"idle", "index_tasks"}
  /\ \E tasks \in SeqsUpTo(IndexedTaskCatalogue, MaxUsers), project_details \in Scopes :
       IndexTasksOn(tasks, project_details)

\* find_matching_users, given what the search answered
FindMatchingUsersOn(task, users, project_details, top_k, search) ==
  LET required_skills == RequiredSkills(variant, task)
      query_top_k == UsersQueryTopK(variant, required_skills, top_k)
      rs == IF search.error # "none" THEN <<>>
            ELSE UsersResults(variant, search.hits, users, project_details, query_top_k)
      hits == UsersAggregated(variant, rs)
      error == IF variant = "pinecone" /\ search.error # "none" THEN search.error
               ELSE IF UsersRaise(variant, hits, required_skills) THEN "ZeroDivisionError"
               ELSE "none"
  IN  /\ op' = [NoOp EXCEPT !.kind = "find_matching_users", !.scope = project_details,
                            !.arg = task, !.users = users, !.top_k = top_k,
                            !.k = UsersRequestedK(variant, required_skills, top_k),
                            !.search = search.error,
                            !.outcome = IF error = "none" THEN "ok" ELSE "raised",
                            !.error = error]
      /\ reply' = search.hits
      /\ results' = rs
      /\ returned' = IF error = "none"
                     THEN Rank(UsersFinalMatches(variant, hits, required_skills), top_k)
                     ELSE <<>>
      /\ UNCHANGED <<variant, store>>

\* find_matching_tasks, given what the search answered
FindMatchingTasksOn(user, project_details, top_k, search) ==
  LET user_skills == UserSkills(variant, user)
      rs == IF search.error # "none" THEN <<>>
            ELSE TasksResults(variant, search.hits, project_details, top_k)
      error == IF variant = "pinecone" /\ search.error # "none" THEN search.error
               ELSE IF TasksRaise(variant, rs, user_skills) THEN "ZeroDivisionError"
               ELSE "none"
  IN  /\ op' = [NoOp EXCEPT !.kind = "find_matching_tasks", !.scope = project_details,
                            !.arg = user, !.top_k = top_k, !.k = top_k,
                            !.search = search.error,
                            !.outcome = IF error = "none" THEN "ok" ELSE "raised",
                            !.error = error]
      /\ reply' = search.hits
      /\ results' = rs
      /\ returned' = IF error = "none"
                     THEN Rank(TasksMatches(variant, rs, user_skills), top_k)
                     ELSE <<>>
      /\ UNCHANGED <<variant, store>>

FindMatchingUsers ==
  /\ op.kind = "idle"
  /\ \E task \in TaskCatalogue, users \in AllowLists, project_details \in Scopes,
       top_k \in 1..MaxTopK :
      \E search \in SearchOutcomes(
                       store[SkillsReadPartition(variant)],
                       IF variant = "pinecone" THEN UsersSearchFilter(users, project_details)
                       ELSE NoFilter,
                       UsersRequestedK(variant, RequiredSkills(variant, task), top_k)) :
         FindMatchingUsersOn(task, users, project_details, top_k, search)

FindMatchingTasks ==
  /\ op.kind = "idle"
  /\ \E user \in UserCatalogue, project_details \in Scopes, top_k \in 1..MaxTopK :
      \E search \in SearchOutcomes(
                       store[TasksReadPartition(variant)],
                       IF variant = "pinecone" THEN TasksSearchFilter(project_details)
                       ELSE NoFilter,
                       top_k) :
         FindMatchingTasksOn(user, project_details, top_k, search)

\* the id lists passed to delete_users and delete_tasks
DeleteUserLists == {<<"u1">>, <<"u2">>, <<"u1", "u2">>}

DeleteTaskLists == {<<"t1">>}

\* delete(filter={key: value}) on a partition
DeleteByFilter(index, key, values) ==
  [id \in {x \in DOMAIN index : Get(index[x].metadata, key, None) \notin values}
     |-> index[id]]

\* delete(ids=[...]) on a partition
DeleteByIds(index, ids) == [id \in (DOMAIN index) \ ids |-> index[id]]

\* the delete-indexed-users request carries a scope, which the handler does
\* not pass on.  delete_users(user_ids): PineconeSDK deletes by the filter user_id in the
\* namespace user_skills and lets a failure of the index propagate;
\* UpstashVectorStore only prints a note for each user
DeleteUsers ==
  /\ op.kind = "idle"
  /\ \E user_ids \in DeleteUserLists, project_details \in Scopes, fails \in BOOLEAN :
      LET p == SkillsWritePartition(variant)
          raises == variant = "pinecone" /\ fails
      IN  /\ store' = IF variant = "pinecone" /\ ~fails
                      THEN [store EXCEPT ![p] = DeleteByFilter(@, "user_id", Range(user_ids))]
                      ELSE store
          /\ op' = [NoOp EXCEPT !.kind = "delete_users", !.arg = user_ids,
                                !.scope = project_details,
                                !.failed = IF fails THEN {1} ELSE {},
                                !.outcome = IF raises THEN "raised" ELSE "ok",
                                !.error = IF raises THEN "DeleteError" ELSE "none"]
          /\ reply' = <<>>
          /\ results' = <<>>
          /\ returned' = <<>>
          /\ UNCHANGED variant

\* delete_tasks(task_ids): PineconeSDK deletes by the filter task_id in the
\* namespace tasks; UpstashVectorStore deletes the stable ids of the tasks
\* and prints the exception of a failed delete
DeleteTasks ==
  /\ op.kind = "idle"
  /\ \E task_ids \in DeleteTaskLists, project_details \in Scopes, fails \in BOOLEAN :
      LET p == TasksWritePartition(variant)
          raises == variant = "pinecone" /\ fails
          vector_ids == {StableId(task_ids[i], "", FALSE) : i \in DOMAIN task_ids}
      IN  /\ store' = IF fails THEN store
                      ELSE IF variant = "pinecone"
                      THEN [store EXCEPT ![p] = DeleteByFilter(@, "task_id", Range(task_ids))]
                      ELSE [store EXCEPT ![p] = DeleteByIds(@, vector_ids)]
          /\ op' = [NoOp EXCEPT !.kind = "delete_tasks", !.arg = task_ids,
                                !.scope = project_details,
                                !.failed = IF fails THEN {1} ELSE {},
                                !.outcome = IF raises THEN "raised" ELSE "ok",
                                !.error = IF raises THEN "DeleteError" ELSE "none"]
          /\ reply' = <<>>
          /\ results' = <<>>
          /\ returned' = <<>>
          /\ UNCHANGED variant

Idle ==
  /\ op.kind # "idle"
  /\ op' = NoOp
  /\ reply' = <<>>
  /\ results' = <<>>
  /\ returned' = <<>>
  /\ UNCHANGED <<variant, store>>

Init ==
  /\ variant \in Variants
  /\ store = [p \in Partitions |-> EmptyIndex]
  /\ op = NoOp
  /\ reply = <<>>
  /\ results = <<>>
  /\ returned = <<>>

Next ==
  \/ IndexUsers \/ IndexTasks
  \/ FindMatchingUsers \/ FindMatchingTasks
  \/ DeleteUsers \/ DeleteTasks
  \/ Idle

Spec == Init /\ [][Next]_vars

----------------------------------------------------------------------------
(* The matching functions on any reply of the search collaborator: the     *)
(* hits, their order, their raw scores and the shape in which the client   *)
(* library hands them over are drawn from bounded sets.                    *)

MatchScope == [project_id |-> "p1", manager_id |-> "m1"]

MatchUserCatalogue ==
  UserCatalogue \cup
  { [id |-> "u3", name |-> "Cy", primary_domain |-> "web", skills |-> <<NodeJs>>] }

\* the indexed skill documents a reply is drawn from
SkillPool(v) ==
  UNION {Range(UserVectors(v, user, MatchScope)) : user \in MatchUserCatalogue}

\* the indexed task documents a reply is drawn from
TaskPool(v) ==
  {AllTaskVectors(v, <<task>>, MatchScope)[1] : task \in TaskCatalogue}

\* the shapes a reply can have: langchain hands (Document, score) pairs to
\* PineconeSDK, UpstashVectorStore accepts objects and dicts
ReplyShapes(v) ==
  IF v = "pinecone" THEN {<<"object", "dict">>} ELSE ResultShapes \X ResultShapes

\* the replies of at most n hits over the documents of pool
AnyReplies(v, pool, n) ==
  UNION { UNION { { [i \in DOMAIN docs |->
                       Hit(docs[i].id, docs[i].metadata, scores[i], sh[1], sh[2])] :
                    scores \in [DOMAIN docs -> RawScores] } :
                  sh \in ReplyShapes(v) } :
          docs \in Arrangements(pool, n) }

AnySearchOutcomes(v, pool, filter, k) ==
  IF k < 1
  THEN {[error |-> "InvalidTopK", hits |-> <<>>], [error |-> "none", hits |-> <<>>]}
  ELSE {SearchFailure} \cup
       {[error |-> "none", hits |-> hits] :
          hits \in AnyReplies(v, {d \in pool : FilterHolds(filter, d.metadata)},
                              Min(k, MaxHits))}

MatchUsersOnReply ==
  /\ op.kind = "idle"
  /\ \E task \in TaskCatalogue, users \in AllowLists, top_k \in 1..MaxTopK :
      \E search \in AnySearchOutcomes(
                       variant, SkillPool(variant),
                       IF variant = "pinecone" THEN UsersSearchFilter(users, MatchScope)
                       ELSE NoFilter,
                       UsersRequestedK(variant, RequiredSkills(variant, task), top_k)) :
         FindMatchingUsersOn(task, users, MatchScope, top_k, search)

MatchTasksOnReply ==
  /\ op.kind = "idle"
  /\ \E user \in UserCatalogue, top_k \in 1..MaxTopK :
      \E search \in AnySearchOutcomes(
                       variant, TaskPool(variant),
                       IF variant = "pinecone" THEN TasksSearchFilter(MatchScope)
                       ELSE NoFilter,
                       top_k) :
         FindMatchingTasksOn(user, MatchScope, top_k, search)

NextMatch == MatchUsersOnReply \/ MatchTasksOnReply \/ Idle

SpecMatch == Init /\ [][NextMatch]_vars

----------------------------------------------------------------------------
(* _calculate_skill_weight on any skill of the data model: experience in   *)
(* whole years, proficiency on the 0..100 scale, the category under the    *)
(* key of the input skill ("category") or of the metadata                  *)
(* ("skill_category").                                                     *)

MaxYears == 11       \* experience_years of a skill

\* the divisor of proficiency_score, which is also the top of its scale
ProficiencyScale == 100

Categories ==
  {"frontend", "backend", "database", "Database", "cloud", "design",
   "management", "quantum", ""}

CategoryKeys == {"category", "skill_category"}

Skill(experience_years, proficiency_score, key, category) ==
  Update([experience_years |-> experience_years,
          proficiency_score |-> proficiency_score],
         [k \in {key} |-> category])

\* skill["skill_category"] of PineconeSDK raises KeyError when the key is
\* absent; UpstashVectorStore reads with skill.get
SkillWeightRaises(v, skill) ==
  v = "pinecone" /\ "skill_category" \notin DOMAIN skill

SkillWeight ==
  /\ op.kind = "idle"
  /\ \E experience_years \in 0..MaxYears, proficiency_score \in 0..ProficiencyScale,
        key \in CategoryKeys, category \in Categories :
      LET skill == Skill(experience_years, proficiency_score, key, category)
          raises == SkillWeightRaises(variant, skill)
      IN  /\ op' = [NoOp EXCEPT !.kind = "_calculate_skill_weight",
                                !.arg = skill,
                                !.outcome = IF raises THEN "raised" ELSE "ok",
                                !.error = IF raises THEN "KeyError" ELSE "none"]
          /\ returned' = IF raises THEN <<>>
                         ELSE CalculateSkillWeight(variant, skill)
          /\ UNCHANGED <<variant, store, reply, results>>

NextWeight == SkillWeight \/ Idle

SpecWeight == Init /\ [][NextWeight]_vars

----------------------------------------------------------------------------
(* Indexing calls with enough documents for several batches: one user with *)
(* n skills, or n tasks.                                                   *)

MaxDocs == 201       \* documents of one bulk indexing call
MaxStored == 1       \* entries in the partition before a bulk indexing call

BulkSizes == {1, BatchSize, BatchSize + 1, MaxDocs}

BulkUser(n) ==
  [id |-> "u1", name |-> "Ann", primary_domain |-> "web",
   skills |-> [i \in 1..n |->
                 [name |-> "skill" \o ToString(i), category |-> "backend",
                  experience_years |-> 1, proficiency_score |-> 10]]]

BulkTasks(n) ==
  [i \in 1..n |->
     [task_id |-> "task" \o ToString(i), name |-> "Task " \o ToString(i),
      required_skills |-> <<>>, complexity |-> 1, estimated_hours |-> 1]]

BulkIndexUsers ==
  /\ op.kind = "idle"
  /\ Cardinality(DOMAIN store[SkillsWritePartition(variant)]) <= MaxStored
  /\ \E n \in BulkSizes : IndexUsersOn(<<BulkUser(n)>>, MatchScope)

BulkIndexTasks ==
  /\ op.kind = "idle"
  /\ Cardinality(DOMAIN store[TasksWritePartition(variant)]) <= MaxStored
  /\ \E n \in BulkSizes : IndexTasksOn(BulkTasks(n), MatchScope)

NextBatch == BulkIndexUsers \/ BulkIndexTasks \/ Idle

SpecBatch == Init /\ [][NextBatch]_vars

----------------------------------------------------------------------------
(* GeminiEmbeddings: the dimension probe of the constructor, then          *)
(* embed_documents on a list of texts of which any subset fails to embed.  *)

MaxTexts == 3        \* texts of one embed_documents call

\* the length of the vectors of models/text-embedding-004, the model every
\* GeminiEmbeddings of the program is constructed with
ModelDimensions == 768

\* the value _get_embedding_dimensions falls back to
DefaultDimensions == 768

Texts == {"Skill: React", "Task: Build UI"}

\* result['embedding'] of a successful embed_content call: a vector of the
\* model's length that depends on the text
Embedding(text) ==
  [i \in 1..ModelDimensions |-> IF text = "Skill: React" THEN 1 ELSE 2]

\* _get_embedding_dimensions()
GetEmbeddingDimensions(probe_fails) ==
  IF probe_fails THEN DefaultDimensions ELSE Len(Embedding("test"))

FallbackVector_Empty(dimensions) == <<>>

\* [0.0] * self._embedding_dimensions
FallbackVector(dimensions) == [i \in 1..dimensions |-> 0]

\* embed_documents(texts), the embed_content calls of the texts at the
\* positions in failing raising
EmbedDocumentsResult(texts, failing, dimensions) ==
  [i \in DOMAIN texts |->
     IF i \in failing THEN FallbackVector(dimensions) ELSE Embedding(texts[i])]

EmbedDocuments ==
  /\ op.kind = "idle"
  /\ \E probe_fails \in BOOLEAN, texts \in {<<>>} \cup SeqsUpTo(Texts, MaxTexts) :
      \E failing \in SUBSET (DOMAIN texts) :
        LET dimensions == GetEmbeddingDimensions(probe_fails)
        IN  /\ op' = [NoOp EXCEPT !.kind = "embed_documents",
                                  !.arg = [texts |-> texts, probe_fails |-> probe_fails,
                                           embedding_dimensions |-> dimensions],
                                  !.failed = failing]
            /\ returned' = EmbedDocumentsResult(texts, failing, dimensions)
            /\ UNCHANGED <<variant, store, reply, results>>

NextEmbed == EmbedDocuments \/ Idle

SpecEmbed == Init /\ [][NextEmbed]_vars

----------------------------------------------------------------------------
(* _get_stable_id on the ids and skill names callers may pass: any strings, *)
(* the separator of the base string included.                               *)

EntityIds == {"u1", "u1_skill_React", "t1", "7"}

IdSkillNames == {"React", "React_skill_React", "Node.js"}

\* the calls index_users and index_tasks make: (user id, skill name) or
\* task id, for which skill_name keeps its default
IdInputs ==
  {[entity_id |-> e, skill_name |-> n, is_user |-> TRUE] :
     e \in EntityIds, n \in IdSkillNames}
  \cup {[entity_id |-> e, skill_name |-> None, is_user |-> FALSE] : e \in EntityIds}

\* _get_stable_id for two entries
GetStableId ==
  /\ op.kind = "idle"
  /\ \E a \in IdInputs, b \in IdInputs :
      /\ op' = [NoOp EXCEPT !.kind = "_get_stable_id", !.arg = <<a, b>>]
      /\ returned' = <<StableId(a.entity_id, a.skill_name, a.is_user),
                       StableId(b.entity_id, b.skill_name, b.is_user)>>
      /\ UNCHANGED <<variant, store, reply, results>>

NextId == GetStableId \/ Idle

SpecId == Init /\ [][NextId]_vars

----------------------------------------------------------------------------
(* _create_skill_document and _create_task_document on dicts of which any  *)
(* of the fields may be absent.                                            *)

\* d without the keys outside keys
Restrict(d, keys) == [k \in (DOMAIN d) \cap keys |-> d[k]]

SkillFields == {"name", "category", "experience_years", "proficiency_score"}

\* task_id is always given: it is the identity of the task
TaskFields == {"name", "required_skills", "complexity", "estimated_hours"}

\* the keys read with d[key], which raises KeyError when the key is absent;
\* the others are read with d.get(key, default)
SkillSubscripted(v) == {"name", "category"}

TaskSubscripted(v) ==
  IF v = "pinecone"
  THEN {"name", "task_id", "required_skills", "complexity", "estimated_hours"}
  ELSE {"name", "task_id"}

CreateSkillDocumentRaises(v, skill) == ~(SkillSubscripted(v) \subseteq DOMAIN skill)

CreateTaskDocumentRaises(v, task) ==
  \/ ~(TaskSubscripted(v) \subseteq DOMAIN task)
  \/ \E i \in DOMAIN Get(task, "required_skills", <<>>) :
       "name" \notin DOMAIN task["required_skills"][i]

ComposeSkill ==
  /\ op.kind = "idle"
  /\ \E full \in {React, NodeJs, PostgreSQL}, present \in SUBSET SkillFields :
      LET skill == Restrict(full, present)
          raises == CreateSkillDocumentRaises(variant, skill)
      IN  /\ op' = [NoOp EXCEPT !.kind = "_create_skill_document", !.arg = skill,
                                !.scope = MatchScope,
                                !.outcome = IF raises THEN "raised" ELSE "ok",
                                !.error = IF raises THEN "KeyError" ELSE "none"]
          /\ returned' = IF raises THEN <<>>
                         ELSE CreateSkillDocument(variant, skill, "u1", MatchScope)
          /\ UNCHANGED <<variant, store, reply, results>>

ComposeTask ==
  /\ op.kind = "idle"
  /\ \E full \in TaskCatalogue, present \in SUBSET TaskFields :
      LET task == Restrict(full, present \cup {"task_id"})
          raises == CreateTaskDocumentRaises(variant, task)
      IN  /\ op' = [NoOp EXCEPT !.kind = "_create_task_document", !.arg = task,
                                !.scope = MatchScope,
                                !.outcome = IF raises THEN "raised" ELSE "ok",
                                !.error = IF raises THEN "KeyError" ELSE "none"]
          /\ returned' = IF raises THEN <<>>
                         ELSE CreateTaskDocument(variant, task, MatchScope)
          /\ UNCHANGED <<variant, store, reply, results>>

NextCompose == ComposeSkill \/ ComposeTask \/ Idle

SpecCompose == Init /\ [][NextCompose]_vars

----------------------------------------------------------------------------
(* get_matcher and the construction of the matcher.  Here results is the   *)
(* state of the two indexes on the collaborator, returned is the global    *)
(* _matcher (<<>> for None), op.arg is the index _initialize_index works   *)
(* on and op.search the call it makes next.  An operation takes several    *)
(* steps; op.outcome is "running" until it returned or raised.             *)

MaxPolls == 2        \* polls of describe_index that are counted

IndexNames == <<"skills-embeddings", "tasks-embeddings">>

IndexStatuses == {"absent", "initializing", "ready"}

InitStart ==
  /\ variant \in Variants
  /\ store = [p \in Partitions |-> EmptyIndex]
  /\ op = NoOp
  /\ reply = <<>>
  /\ results \in [Range(IndexNames) -> IndexStatuses]
  /\ returned = <<>>

Constructing == op.kind = "__init__" /\ op.outcome = "running"

\* _initialize_index returned: __init__ goes on with the next index, or
\* builds the two stores and returns
Initialized(name, status) ==
  IF name = IndexNames[1]
  THEN /\ op' = [op EXCEPT !.arg = <<IndexNames[2]>>, !.search = "list_indexes",
                           !.k = 0]
       /\ results' = status
       /\ UNCHANGED returned
  ELSE /\ op' = [op EXCEPT !.search = "none", !.outcome = "ok"]
       /\ results' = status
       /\ returned' = <<variant>>

\* an exception of the collaborator leaves __init__ and get_matcher
Raised(error) ==
  /\ op' = [op EXCEPT !.search = "none", !.outcome = "raised", !.error = error]
  /\ UNCHANGED <<results, returned>>

GetMatcher ==
  /\ op.kind = "idle"
  /\ IF returned # <<>>
     THEN /\ op' = [NoOp EXCEPT !.kind = "get_matcher"]
          /\ UNCHANGED returned
     ELSE IF variant = "upstash"
     THEN \E configured \in BOOLEAN :
            IF configured
            THEN /\ op' = [NoOp EXCEPT !.kind = "__init__"]
                 /\ returned' = <<variant>>
            ELSE /\ op' = [NoOp EXCEPT !.kind = "__init__", !.outcome = "raised",
                                       !.error = "ValueError"]
                 /\ UNCHANGED returned
     ELSE /\ op' = [NoOp EXCEPT !.kind = "__init__", !.arg = <<IndexNames[1]>>,
                                !.search = "list_indexes", !.outcome = "running"]
          /\ UNCHANGED returned
  /\ UNCHANGED <<variant, store, reply, results>>

\* list_indexes, and create_index when the index is not listed
InitializeIndex ==
  /\ Constructing
  /\ op.search = "list_indexes"
  /\ LET index_name == op.arg[1] IN
     \E listed, created \in BOOLEAN :
       IF ~listed THEN Raised("ListIndexesError")
       ELSE IF results[index_name] # "absent"
       THEN Initialized(index_name, results)
       ELSE IF ~created THEN Raised("CreateIndexError")
       ELSE /\ op' = [op EXCEPT !.search = "describe_index"]
            /\ results' = [results EXCEPT ![index_name] = "initializing"]
            /\ UNCHANGED returned
  /\ UNCHANGED <<variant, store, reply>>

\* the condition of the while loop: describe_index(index_name).status["ready"]
DescribeIndex ==
  /\ Constructing
  /\ op.search = "describe_index"
  /\ LET index_name == op.arg[1] IN
     \E described \in BOOLEAN :
       IF ~described THEN Raised("DescribeIndexError")
       ELSE IF results[index_name] = "ready"
       THEN Initialized(index_name, results)
       ELSE /\ op' = [op EXCEPT !.search = "sleep"]
            /\ UNCHANGED <<results, returned>>
  /\ UNCHANGED <<variant, store, reply>>

\* the body of the while loop: time.sleep(1)
Sleep ==
  /\ Constructing
  /\ op.search = "sleep"
  /\ op' = [op EXCEPT !.search = "describe_index", !.k = Min(op.k + 1, MaxPolls)]
  /\ UNCHANGED <<variant, store, reply, results, returned>>

\* the collaborator finishes the creation of an index, when it does
IndexBecomesReady ==
  /\ \E index_name \in Range(IndexNames) :
       /\ results[index_name] = "initializing"
       /\ results' = [results EXCEPT ![index_name] = "ready"]
  /\ UNCHANGED <<variant, store, op, reply, returned>>

\* get_matcher returned or raised: the request that called it is over
Returned ==
  /\ op.kind \in {"__init__", "get_matcher"}
  /\ op.outcome # "running"
  /\ op' = NoOp
  /\ UNCHANGED <<variant, store, reply, results, returned>>

NextStart ==
  \/ GetMatcher
  \/ InitializeIndex
  \/ DescribeIndex
  \/ Sleep
  \/ IndexBecomesReady
  \/ Returned

\* the steps of the program are taken; the collaborator owes nothing
SpecStart ==
  /\ InitStart
  /\ [][NextStart]_vars
  /\ WF_vars(InitializeIndex)
  /\ WF_vars(DescribeIndex)
  /\ WF_vars(Sleep)
  /\ WF_vars(Returned)

----------------------------------------------------------------------------
(* The endpoints of main.py.  Each handler runs the matcher call inside    *)
(* try ... except Exception and answers with the success payload or with   *)
(* HTTPException(status_code=500, detail=str(e)).                          *)

EndpointKinds ==
  {"index_users", "index_tasks", "find_matching_users", "find_matching_tasks",
   "delete_users", "delete_tasks"}

\* the body of the success response of the endpoint of a matcher call
SuccessPayload(kind, entity, matches) ==
  CASE kind = "index_users" -> [message |-> "Users indexed successfully"]
    [] kind = "index_tasks" -> [message |-> "Tasks indexed successfully"]
    [] kind = "find_matching_users" ->
         [task |-> entity, matched_users |-> matches]
    [] kind = "find_matching_tasks" ->
         [user |-> entity, matched_tasks |-> matches]
    [] kind = "delete_users" -> [message |-> "Users Index deleted successfully"]
    [] kind = "delete_tasks" -> [message |-> "Tasks Index deleted successfully"]

Handler_Swallow(kind, entity, outcome, error, matches) ==
  [status |-> 200, body |-> SuccessPayload(kind, entity, matches)]

\* try: ...; return payload / except Exception as e: raise HTTPException(...)
Handler(kind, entity, outcome, error, matches) ==
  IF outcome = "raised"
  THEN [status |-> 500, detail |-> error]
  ELSE [status |-> 200, body |-> SuccessPayload(kind, entity, matches)]

\* the response to the request whose matcher call is in op
Response == Handler(op.kind, op.arg, op.outcome, op.error, returned)

----------------------------------------------------------------------------
(* Properties *)

IsFind == op.kind \in {"find_matching_users", "find_matching_tasks"}

ReadPartition ==
  IF op.kind = "find_matching_users" THEN SkillsReadPartition(variant)
  ELSE TasksReadPartition(variant)

\* the hits whose data went into the returned list
Aggregated ==
  IF op.kind = "find_matching_users" THEN UsersAggregated(variant, results) ELSE results

\* the entity id a hit is aggregated under
HitEntity(hit) ==
  IF op.kind = "find_matching_users" THEN MetaGet(hit, "user_id", None)
  ELSE MetaGet(hit, "task_id", "")

EntityOf(match) ==
  IF op.kind = "find_matching_users" THEN match.user_id ELSE match.task_id

InScope(metadata, project_details) ==
  /\ Get(metadata, "project_id", None) = project_details["project_id"]
  /\ Get(metadata, "manager_id", None) = project_details["manager_id"]

\* C1: every entry returned by find_matching_users or find_matching_tasks
\* for a scope comes from index entries that were indexed with exactly that
\* project_id and manager_id, and with a non-empty allow-list every returned
\* user_id is in the allow-list.
C1_ScopeIsolation ==
  IsFind =>
    /\ \A i \in DOMAIN results :
         /\ results[i].id \in DOMAIN store[ReadPartition]
         /\ store[ReadPartition][results[i].id].metadata = results[i].metadata
         /\ InScope(results[i].metadata, op.scope)
    /\ \A j \in DOMAIN returned :
         \E i \in DOMAIN results : HitEntity(results[i]) = EntityOf(returned[j])
    /\ (op.kind = "find_matching_users" /\ op.users # <<>>) =>
         \A j \in DOMAIN returned : returned[j].user_id \in Range(op.users)

\* a query with an allow-list returned a user although the reply held an
\* entry of another scope and an in-scope entry of a user not on the list
C1_Witness ==
  /\ op.kind = "find_matching_users"
  /\ op.users # <<>>
  /\ returned # <<>>
  /\ \E i \in DOMAIN reply : ~InScope(reply[i].metadata, op.scope)
  /\ \E i \in DOMAIN reply :
       /\ InScope(reply[i].metadata, op.scope)
       /\ MetaGet(reply[i], "user_id", None) \notin Range(op.users) \cup {None}

\* the entries of the written partition that belong to a (user, skill) pair
PairEntries(user_id, skill_name) ==
  LET index == store[SkillsWritePartition(variant)]
  IN  {id \in DOMAIN index :
         /\ Get(index[id].metadata, "user_id", None) = user_id
         /\ Get(index[id].metadata, "skill_name", None) = skill_name}

TaskEntries(task_id) ==
  LET index == store[TasksWritePartition(variant)]
  IN  {id \in DOMAIN index : Get(index[id].metadata, "task_id", None) = task_id}

\* after the call in op, each (user, skill) pair, respectively task, of the
\* call has exactly one entry
ExactlyOneEntry ==
  IF op.kind = "index_users"
  THEN \A u \in DOMAIN op.arg : \A k \in DOMAIN op.arg[u].skills :
         Cardinality(PairEntries(op.arg[u].id, op.arg[u].skills[k].name)) = 1
  ELSE \A t \in DOMAIN op.arg : Cardinality(TaskEntries(op.arg[t].task_id)) = 1

\* C2: an indexing call that repeats the call before it (same users or
\* tasks, same scope) leaves the index as the first call left it, with
\* exactly one entry for each (user, skill) pair, respectively task.
C2_IdempotentIndexing ==
  [][(op'.kind \in {"index_users", "index_tasks"} /\ op'.again)
       => (store' = store /\ ExactlyOneEntry')]_vars

\* an index_users call with a user of two skills was repeated
C2_Witness ==
  /\ op.kind = "index_users"
  /\ op.again
  /\ \E u \in DOMAIN op.arg : Len(op.arg[u].skills) = 2

\* the documents an index_users call composes for a user id
ComposedFor(user_id) ==
  UNION {Range(UserVectors(variant, op.arg[u], op.scope)) :
           u \in {x \in DOMAIN op.arg : op.arg[x].id = user_id}}

\* the entries of the skills space whose user_id is the given one
IndexedFor(user_id) ==
  LET index == store[SkillsWritePartition(variant)]
  IN  {[id |-> id, content |-> index[id].content, metadata |-> index[id].metadata] :
         id \in {x \in DOMAIN index : Get(index[x].metadata, "user_id", None) = user_id}}

\* C3: after a successful index_users call, the skills-space entries of each
\* user id of the call are exactly the (user, skill) documents of that call.
C3_ReindexSupersedes ==
  (op.kind = "index_users" /\ op.outcome = "ok" /\ op.failed = {}) =>
    \A u \in DOMAIN op.arg : IndexedFor(op.arg[u].id) = ComposedFor(op.arg[u].id)

\* C4: each match returned by find_matching_users and find_matching_tasks
\* has 0 <= skill_coverage <= 1.
C4_CoverageBounds ==
  (IsFind /\ op.outcome = "ok") =>
    \A j \in DOMAIN returned :
      /\ RatLe(Zero, returned[j].skill_coverage)
      /\ RatLe(returned[j].skill_coverage, One)

\* the call in op is a matching call over an empty set of required skills
EmptyRequired ==
  \/ /\ op.kind = "find_matching_users"
     /\ RequiredSkills(variant, op.arg) = {}
  \/ /\ op.kind = "find_matching_tasks"
     /\ \A i \in DOMAIN results : TaskRequiredSkills(variant, results[i]) = {}

\* C5: a matching call over an empty set of required skills completes and
\* reports skill_coverage = 0 for every returned match.
C5_EmptyRequiredSkills ==
  EmptyRequired =>
    /\ op.outcome = "ok"
    /\ \A j \in DOMAIN returned : returned[j].skill_coverage = Zero

\* every aggregated candidate of the call in op, before sorting and cutting
Candidates_All ==
  IF op.kind = "find_matching_users"
  THEN UsersFinalMatches(variant, Aggregated, RequiredSkills(variant, op.arg))
  ELSE TasksMatches(variant, Aggregated, UserSkills(variant, op.arg))

\* C6: the returned list is sorted non-increasing by match_score, has at
\* most top_k entries, and no aggregated candidate left out of it has a
\* strictly higher match_score than one that is in it.
C6_RankedTopK ==
  (IsFind /\ op.outcome = "ok") =>
    /\ Len(returned) <= op.top_k
    /\ Len(returned) = Min(op.top_k, Len(Candidates_All))
    /\ Range(returned) \subseteq Range(Candidates_All)
    /\ \A i, j \in DOMAIN returned :
         i < j => RatLe(returned[j].match_score, returned[i].match_score)
    /\ \A c \in Range(Candidates_All) \ Range(returned) :
         \A j \in DOMAIN returned : RatLe(c.match_score, returned[j].match_score)

\* two users of different score were returned in an order that is not the
\* order of the hits, and a third one of lower score was left out
C6_Witness ==
  /\ op.kind = "find_matching_users"
  /\ op.outcome = "ok"
  /\ Len(returned) = 2
  /\ RatLt(returned[2].match_score, returned[1].match_score)
  /\ returned[1] # Candidates_All[1]
  /\ \E c \in Range(Candidates_All) \ Range(returned) :
       RatLt(c.match_score, returned[2].match_score)

\* the ascending order of the entity ids that occur
IdRank(id) ==
  CASE id = "" -> 0
    [] id = "t1" -> 1 [] id = "t2" -> 2 [] id = "t3" -> 3 [] id = "t4" -> 4
    [] id = "u1" -> 5 [] id = "u2" -> 6 [] id = "u3" -> 7

\* C7: any two returned entries with equal match_score appear in ascending
\* order of their entity id.
C7_TieBreakById ==
  (IsFind /\ op.outcome = "ok") =>
    \A i, j \in DOMAIN returned :
      (i < j /\ returned[i].match_score = returned[j].match_score)
        => IdRank(EntityOf(returned[i])) < IdRank(EntityOf(returned[j]))

\* the skill weight formula applied to the experience, proficiency and
\* category stored in a hit's metadata
StoredSkillWeight(hit) ==
  CalculateSkillWeight("upstash",
    [experience_years |-> MetaGet(hit, "experience", 0),
     proficiency_score |-> MetaGet(hit, "proficiency", 0),
     category |-> MetaGet(hit, "skill_category", "")])

HitsOf(entity) == SelectSeq(Aggregated, LAMBDA h : HitEntity(h) = entity)

\* C8: for every returned user, match_score = 0.4*avgScore +
\* 0.4*skill_coverage + 0.2*avgWeight, avgScore the mean of the normalized
\* scores of the user's hits and avgWeight the mean of the skill weights of
\* the experience, proficiency and category stored with each hit.
C8_UserMatchScore ==
  (op.kind = "find_matching_users" /\ op.outcome = "ok") =>
    \A j \in DOMAIN returned :
      LET mine == HitsOf(returned[j].user_id)
          avgScore == Mean([i \in DOMAIN mine |-> NormalizedScore(variant, mine[i])])
          avgWeight == Mean([i \in DOMAIN mine |-> StoredSkillWeight(mine[i])])
      IN  returned[j].match_score =
            RatAdd(RatAdd(RatMul(Rat(4, 10), avgScore),
                          RatMul(Rat(4, 10), returned[j].skill_coverage)),
                   RatMul(Rat(2, 10), avgWeight))

\* the normalized score of a hit: the similarity the result carries, which
\* PineconeSDK reads as a distance (1 - score)
CarriedScore(hit) ==
  IF variant = "pinecone" THEN Rat(100 - hit.score, 100) ELSE Rat(hit.score, 100)

ExpectedTaskCoverage(hit) ==
  LET required == Range(MetaGet(hit, "required_skills", <<>>))
      mine == UserSkills(variant, op.arg)
  IN  IF required = {} THEN Zero
      ELSE Rat(Cardinality(required \cap mine), Cardinality(required))

\* C9: for every returned task, skill_coverage = |required /\ user skills| /
\* |required| and match_score = normalizedScore * skill_coverage; and with
\* user skills {React, Node.js}, t1 [React, Node.js] at normalized 0.90 is
\* ranked before t2 [React, GraphQL] at normalized 0.95.
C9_TaskMatchScore ==
  (op.kind = "find_matching_tasks" /\ op.outcome = "ok") =>
    /\ \A j \in DOMAIN returned :
         \E i \in DOMAIN results :
           /\ HitEntity(results[i]) = returned[j].task_id
           /\ returned[j].skill_coverage = ExpectedTaskCoverage(results[i])
           /\ returned[j].match_score =
                RatMul(CarriedScore(results[i]), ExpectedTaskCoverage(results[i]))
    /\ ( /\ UserSkills(variant, op.arg) = {"React", "Node.js"}
         /\ Len(results) = 2
         /\ \E i, k \in DOMAIN results :
              /\ HitEntity(results[i]) = "t1" /\ CarriedScore(results[i]) = Rat(90, 100)
              /\ HitEntity(results[k]) = "t2" /\ CarriedScore(results[k]) = Rat(95, 100) )
       => ( /\ Len(returned) = 2
            /\ returned[1].task_id = "t1" /\ returned[1].match_score = Rat(90, 100)
            /\ returned[2].task_id = "t2" /\ returned[2].match_score = Rat(475, 1000) )

\* C10: every score that enters the aggregation is in [0,1] and no returned
\* match_score is negative.
C10_NormalizedScores ==
  (IsFind /\ op.outcome = "ok") =>
    /\ \A i \in DOMAIN Aggregated :
         /\ RatLe(Zero, NormalizedScore(variant, Aggregated[i]))
         /\ RatLe(NormalizedScore(variant, Aggregated[i]), One)
    /\ \A j \in DOMAIN returned : RatLe(Zero, returned[j].match_score)

----------------------------------------------------------------------------
(* Skill weight *)

IsWeight == op.kind = "_calculate_skill_weight"

\* the table of the weight formula, in hundredths
TableMultiplier(category) ==
  CASE category \in {"frontend", "backend", "design"} -> 110
    [] category \in {"database", "Database", "cloud"} -> 115
    [] OTHER -> 100

\* (0.4 * min(experience_years / 10, 1) + 0.6 * proficiency_score / 100) * m
FormulaWeight(skill) ==
  Rat((40 * Min(skill["experience_years"], 10) + 6 * skill["proficiency_score"])
        * TableMultiplier(skill["category"]),
      100000)

\* C11: on every skill {experience_years, proficiency_score, category} of
\* the data model _calculate_skill_weight does not fail and returns
\* (0.4*min(experience_years/10, 1) + 0.6*proficiency_score/100) * m with m
\* from the table for the lower-cased category and 1.0 otherwise; the skill
\* {5, 80, database} yields 0.782.
C11_SkillWeightFormula ==
  (IsWeight /\ "category" \in DOMAIN op.arg)
    => /\ op.outcome = "ok"
       /\ returned = FormulaWeight(op.arg)
       /\ (op.arg = Skill(5, 80, "category", "database")
             => returned = Rat(782, 1000))

\* C12: every value that _calculate_skill_weight returns lies between 0 and
\* 1.15.
C12_WeightBounds ==
  (IsWeight /\ op.outcome = "ok")
    => /\ RatLe(Zero, returned)
       /\ RatLe(returned, Rat(115, 100))

\* the upper bound is attained at saturation, top proficiency and a
\* category of the highest multiplier
C12_Witness ==
  /\ IsWeight
  /\ op.outcome = "ok"
  /\ op.arg["experience_years"] > 10
  /\ op.arg["proficiency_score"] = ProficiencyScale
  /\ returned = Rat(115, 100)

\* the skill that differs from skill in one field only
With(skill, key, value) == [skill EXCEPT ![key] = value]

\* C13: the weight does not decrease when experience_years or
\* proficiency_score grows with the other fields fixed, and it does not
\* change with experience_years from 10 years on.
C13_WeightMonotonic ==
  (IsWeight /\ op.outcome = "ok")
    => /\ \A e \in op.arg["experience_years"]..MaxYears :
            LET w == CalculateSkillWeight(variant, With(op.arg, "experience_years", e))
            IN  /\ RatLe(returned, w)
                /\ op.arg["experience_years"] >= 10 => w = returned
       /\ \A p \in op.arg["proficiency_score"]..ProficiencyScale :
            RatLe(returned,
                  CalculateSkillWeight(variant, With(op.arg, "proficiency_score", p)))

\* a weight below saturation and one at 10 years, where more experience is
\* possible
C13_Witness ==
  /\ IsWeight
  /\ op.outcome = "ok"
  /\ op.arg["experience_years"] = 10
  /\ op.arg["proficiency_score"] = 50
  /\ RatLt(CalculateSkillWeight(variant, With(op.arg, "experience_years", 9)), returned)

----------------------------------------------------------------------------
(* Indexing failures *)

IsIndex == op.kind \in {"index_users", "index_tasks"}

\* the call in op was given a skill or a task that lacks name
LacksName ==
  IF op.kind = "index_users" THEN UsersComposeRaises(op.arg)
  ELSE TasksComposeRaises(op.arg)

\* C14: an index_users or index_tasks call that is given a skill or a task
\* without a name fails and leaves the index as it was: no document of the
\* call is upserted, the valid ones listed before the invalid one included.
C14_NamelessRejected ==
  [][(IsIndex' /\ LacksName') => (op'.outcome = "raised" /\ store' = store)]_vars

\* index_users failed on a user whose first skill is valid and whose second
\* skill has no name, while the index held entries
C14_Witness ==
  /\ op.kind = "index_users"
  /\ op.error = "KeyError"
  /\ Len(op.arg[1].skills) = 2
  /\ "name" \in DOMAIN op.arg[1].skills[1]
  /\ "name" \notin DOMAIN op.arg[1].skills[2]
  /\ store[SkillsWritePartition(variant)] # EmptyIndex
  /\ StableId(op.arg[1].id, op.arg[1].skills[1].name, TRUE)
       \notin DOMAIN store[SkillsWritePartition(variant)]

\* the partition and the documents of the indexing call in op
WrittenPartition ==
  IF op.kind = "index_users" THEN SkillsWritePartition(variant)
  ELSE TasksWritePartition(variant)

CallVectors ==
  IF op.kind = "index_users" THEN AllUserVectors(variant, op.arg, op.scope)
  ELSE AllTaskVectors(variant, op.arg, op.scope)

\* the documents of every batch of the call that the index did not reject
\* are in the index
OtherBatchesCommitted ==
  LET all_vectors == CallVectors
      index == store[WrittenPartition]
  IN  \A i \in DOMAIN all_vectors :
        ((i - 1) \div BatchSize) + 1 \notin op.failed
          => /\ all_vectors[i].id \in DOMAIN index
             /\ index[all_vectors[i].id].content = all_vectors[i].content

C16_FailureReported ==
  (IsIndex /\ op.failed # {}) => op.outcome # "ok"

----------------------------------------------------------------------------
(* Search failures *)

\* C17: when the query of the search collaborator raises, find_matching_users
\* and find_matching_tasks return an empty list instead of raising, so the
\* endpoint's loop over the entities of the request goes on.
C17_SearchFailureFallback ==
  (IsFind /\ op.search = "SearchError")
    => (op.outcome = "ok" /\ returned = <<>>)

----------------------------------------------------------------------------
(* Deletion *)

\* the entries, in any partition, of the entities of the delete call in op
EntriesOfDeleted ==
  LET key == IF op.kind = "delete_users" THEN "user_id" ELSE "task_id"
  IN  {<<p, id>> \in Partitions \X UNION {DOMAIN store[p] : p \in Partitions} :
         /\ id \in DOMAIN store[p]
         /\ Get(store[p][id].metadata, key, None) \in Range(op.arg)}

\* C18: after a delete_users or delete_tasks call that reports success, no
\* index entry of a listed user or task is left, so no later query can
\* return it; a delete the store cannot carry out is surfaced as a failure.
C18_DeleteRemoves ==
  (op.kind \in {"delete_users", "delete_tasks"} /\ op.outcome = "ok")
    => EntriesOfDeleted = {}

----------------------------------------------------------------------------
(* Embedding fallback *)

\* C19: embed_documents does not fail when embed_content does: it returns
\* one vector per text in the order of the texts, the all-zero vector for
\* a text whose embedding failed, each of length embedding_dimensions, also
\* when the probe of the constructor failed.
C19_EmbedFallback ==
  op.kind = "embed_documents"
    => /\ op.outcome = "ok"
       /\ Len(returned) = Len(op.arg.texts)
       /\ \A i \in DOMAIN returned :
            /\ Len(returned[i]) = op.arg.embedding_dimensions
            /\ i \in op.failed => \A j \in DOMAIN returned[i] : returned[i][j] = 0
            /\ i \notin op.failed => returned[i] = Embedding(op.arg.texts[i])

\* after a failed probe, the first and the last of three texts failed to
\* embed and the one between them did not
C19_Witness ==
  /\ op.kind = "embed_documents"
  /\ op.arg.probe_fails
  /\ Len(op.arg.texts) = 3
  /\ op.failed = {1, 3}
  /\ returned[2] = Embedding(op.arg.texts[2])
  /\ returned[1] = returned[3]

----------------------------------------------------------------------------
(* Entry ids *)

\* C20: the entries of two different (user id, skill name) pairs, of two
\* different task ids, and of a pair and a task, never get the same id.
C20_UnambiguousIds ==
  op.kind = "_get_stable_id" => (op.arg[1] # op.arg[2] => returned[1] # returned[2])

----------------------------------------------------------------------------
(* Partitions *)

\* the partition that the indexing operation of the queried kind writes to
WritePartitionOfFind ==
  IF op.kind = "find_matching_users" THEN SkillsWritePartition(variant)
  ELSE TasksWritePartition(variant)

\* whether an entry was written by index_users, respectively index_tasks
IsSkillDocument(metadata) == "skill_name" \in DOMAIN metadata

IsTaskDocument(metadata) == "task_id" \in DOMAIN metadata

\* the entries that the indexing operation of the queried kind wrote under
\* the scope (and allow-list) of the query in op
WrittenInScope ==
  LET index == store[WritePartitionOfFind]
  IN  {id \in DOMAIN index :
         /\ InScope(index[id].metadata, op.scope)
         /\ IF op.kind = "find_matching_users"
            THEN /\ IsSkillDocument(index[id].metadata)
                 /\ op.users = <<>> \/ index[id].metadata["user_id"] \in Range(op.users)
            ELSE IsTaskDocument(index[id].metadata)}

\* C22: a query issued after a write searches the partition the write went
\* to: when the search answers and k is at least the number of entries
\* written under the scope of the query, each of them is among the
\* candidates.
C22_WriteVisible ==
  (IsFind /\ op.search = "none" /\ Cardinality(WrittenInScope) <= op.k)
    => \A id \in WrittenInScope : \E i \in DOMAIN reply : reply[i].id = id

\* C23: the skills space and the tasks space are not cross-queried: the
\* candidates of find_matching_tasks are entries written by index_tasks and
\* the candidates of find_matching_users are entries written by index_users.
C23_DisjointSpaces ==
  IsFind =>
    \A i \in DOMAIN reply :
      IF op.kind = "find_matching_users" THEN IsSkillDocument(reply[i].metadata)
      ELSE IsTaskDocument(reply[i].metadata)

\* the number of distinct names among the required skills of the task
DistinctRequired ==
  Cardinality({op.arg["required_skills"][i]["name"] :
                 i \in DOMAIN op.arg["required_skills"]})

\* C24: find_matching_users asks the skills space for exactly
\* top_k * max(1, number of distinct required skill names) candidates.
C24_RequestedCandidates ==
  op.kind = "find_matching_users"
    => op.k = op.top_k * (IF DistinctRequired < 1 THEN 1 ELSE DistinctRequired)

----------------------------------------------------------------------------
(* Scope as a frame *)

\* the entries of a partition that carry another scope than the given one
OutOfScope(index, project_details) ==
  {id \in DOMAIN index : ~InScope(index[id].metadata, project_details)}

\* C27: indexing users under one scope leaves the entries of every other
\* scope in the index as they were.
C27_IndexKeepsOtherScopes ==
  [][(op'.kind = "index_users" /\ op'.outcome = "ok")
       => \A p \in Partitions : \A id \in OutOfScope(store[p], op'.scope) :
            /\ id \in DOMAIN store'[p]
            /\ store'[p][id] = store[p][id]]_vars

\* C28: a delete request made with a scope leaves the entries of every
\* other scope in the index.
C28_DeleteKeepsOtherScopes ==
  [][(op'.kind \in {"delete_users", "delete_tasks"})
       => \A p \in Partitions : \A id \in OutOfScope(store[p], op'.scope) :
            id \in DOMAIN store'[p]]_vars

----------------------------------------------------------------------------
(* Scores of UpstashVectorStore, aggregation per user *)

\* the similarity score a result carries, as a fraction
ResultScore(hit) == Rat(hit.score, 100)

\* C29: UpstashVectorStore uses for each result the similarity score the
\* result carries, whether the result is an object or a dict: a returned
\* task has match_score = score * skill_coverage (so score itself at full
\* coverage), and a returned user has match_score = 0.4 * mean of the
\* scores of its hits + 0.4 * skill_coverage + 0.2 * mean of its weights.
C29_UpstashCarriedScore ==
  (variant = "upstash" /\ IsFind /\ op.outcome = "ok") =>
    \A j \in DOMAIN returned :
      IF op.kind = "find_matching_tasks"
      THEN \E i \in DOMAIN results :
             /\ HitEntity(results[i]) = returned[j].task_id
             /\ returned[j].match_score =
                  RatMul(ResultScore(results[i]), returned[j].skill_coverage)
      ELSE LET mine == HitsOf(returned[j].user_id)
           IN  returned[j].match_score =
                 RatAdd(RatAdd(RatMul(Mean([i \in DOMAIN mine |-> ResultScore(mine[i])]),
                                      Rat(4, 10)),
                               RatMul(returned[j].skill_coverage, Rat(4, 10))),
                        RatMul(Mean(UserData(variant, Aggregated,
                                             returned[j].user_id).skill_weights),
                               Rat(2, 10)))

\* C30: a user id occurs at most once in the list find_matching_users
\* returns, and the entry of a user aggregates all hits of that user: its
\* skill_coverage counts the skill names of all of them.
C30_OneEntryPerUser ==
  (op.kind = "find_matching_users" /\ op.outcome = "ok") =>
    /\ \A i, j \in DOMAIN returned :
         returned[i].user_id = returned[j].user_id => i = j
    /\ \A j \in DOMAIN returned :
         LET mine == HitsOf(returned[j].user_id)
             names == {MetaGet(mine[i], "skill_name", "") : i \in DOMAIN mine}
             required == RequiredSkills(variant, op.arg)
         IN  required # {} =>
               returned[j].skill_coverage =
                 Rat(Cardinality(names), Cardinality(required))

\* a returned user of whom two skill documents were among the hits
C30_Witness ==
  /\ op.kind = "find_matching_users"
  /\ op.outcome = "ok"
  /\ \E j \in DOMAIN returned : Len(HitsOf(returned[j].user_id)) = 2
  /\ Len(returned) = 2

----------------------------------------------------------------------------
(* Composition defaults *)

IsCompose == op.kind \in {"_create_skill_document", "_create_task_document"}

\* C25: a skill or a task that has a name is composed whatever other fields
\* it lacks, with the name in its content and metadata.
C25_OnlyNameRequired ==
  (IsCompose /\ "name" \in DOMAIN op.arg)
    => /\ op.outcome = "ok"
       /\ IF op.kind = "_create_skill_document"
          THEN returned.metadata["skill_name"] = op.arg["name"]
          ELSE returned.metadata["task_name"] = op.arg["name"]

----------------------------------------------------------------------------
(* Endpoints *)

\* C21: the request of an indexing, matching or deletion endpoint ends
\* either with the success payload, when the matcher call returned, or with
\* an error envelope that has a string detail and a status outside 2xx,
\* when the matcher call raised; no exception leaves the handler.
C21_EndpointEnvelope ==
  op.kind \in EndpointKinds =>
    \/ /\ op.outcome = "ok"
       /\ Response.status = 200
       /\ DOMAIN Response = {"status", "body"}
    \/ /\ op.outcome = "raised"
       /\ Response.status \notin 200..299
       /\ DOMAIN Response = {"status", "detail"}
       /\ Response.detail \in {"KeyError", "UpsertError", "SearchError",
                               "InvalidTopK", "ZeroDivisionError", "DeleteError"}

\* an index_users request that failed on a skill without a name
C21_Witness ==
  /\ op.kind = "index_users"
  /\ op.error = "KeyError"
  /\ Response = [status |-> 500, detail |-> "KeyError"]

----------------------------------------------------------------------------
(* Termination *)

\* C26: no operation blocks indefinitely: a construction of the matcher
\* that has begun eventually returns or raises, whatever the collaborator
\* does, also when a newly created index never reports ready.
C26_NoIndefiniteBlocking == Constructing ~> ~Constructing
====
